---- MODULE Spec2Model ----
(***************************************************************************)
(* Model of testing/testing_sct_propseg.py: the harness that runs the old  *)
(* and the new PropSeg executable over the t2 corpus, checks detection,    *)
(* computes the Dice coefficient and prints one table row per input.       *)
(*                                                                         *)
(* Strings are sequences of tokens, so that string concatenation is \o and *)
(* startswith / endswith / split are computed on the tokens.  A float is a *)
(* record [nan, val] with val in thousandths.                              *)
(*                                                                         *)
(* The module also holds scripts/sct_fmri_compute_tsnr.py (Tsnr.compute),  *)
(* as a second specification, TsnrSpec, over its own variables.            *)
(***************************************************************************)
EXTENDS Integers, Sequences, FiniteSets, TLC

(***************************************************************************)
(* Bounds of the model.                                                    *)
(***************************************************************************)
\* longest listing of the t2/ folder
MaxDirs == 2
\* longest listing of one subject folder
MaxFiles == 3
\* most time points of an fMRI series
MaxT == 2
\* largest sample of an fMRI series
MaxVal == 2

(***************************************************************************)
(* Strings, paths and file names.                                          *)
(***************************************************************************)
StartsWith(s, pre) ==
    /\ Len(s) >= Len(pre)
    /\ SubSeq(s, 1, Len(pre)) = pre

EndsWith(s, suf) ==
    /\ Len(s) >= Len(suf)
    /\ SubSeq(s, Len(s) - Len(suf) + 1, Len(s)) = suf

\* the sequences without repetition of at most n elements of S
RECURSIVE Listings(_, _)
Listings(S, n) ==
    IF n = 0 THEN {<< >>}
    ELSE {<< >>} \cup UNION {{<<x>> \o l : l \in Listings(S \ {x}, n - 1)} : x \in S}

\* working directory of the process
Cwd == <<"/", "work">>

\* os.path.abspath: relative paths are joined to the working directory, a
\* trailing separator is dropped
abspath(p) ==
    LET q == IF Len(p) > 1 /\ p[Len(p)] = "/" THEN SubSeq(p, 1, Len(p) - 1) ELSE p
    IN  IF q[1] = "/" THEN q ELSE Cwd \o <<"/">> \o q

\* sct.slash_at_the_end(path, 1)
slash_at_the_end(p) == IF p[Len(p)] = "/" THEN p ELSE p \o <<"/">>

\* position of the last "/" of a path, 0 when there is none
RECURSIVE LastSlash(_, _)
LastSlash(p, i) ==
    IF i = 0 THEN 0 ELSE IF p[i] = "/" THEN i ELSE LastSlash(p, i - 1)

Extensions == {".nii.gz", ".nii", ".txt"}

\* sct.extract_fname: folder (with its slash), file name without extension,
\* extension
extract_fname(fname) ==
    LET k    == LastSlash(fname, Len(fname))
        base == SubSeq(fname, k + 1, Len(fname))
        hasx == Len(base) > 0 /\ base[Len(base)] \in Extensions
    IN  [path |-> SubSeq(fname, 1, k),
         file |-> IF hasx THEN SubSeq(base, 1, Len(base) - 1) ELSE base,
         ext  |-> IF hasx THEN <<base[Len(base)]>> ELSE << >>]

(***************************************************************************)
(* class param (lines 27-33).                                              *)
(***************************************************************************)
url_git == <<"https://github.com/neuropoly/", "sct_testing_data", ".git">>

default_path_data ==
    <<"/", "home", "/", "django", "/", "benjamindeleener", "/", "data", "/",
      "PropSeg_data", "/">>

param_init ==
    [download |-> 0, remove_tmp_file |-> 0, verbose |-> 1,
     url_git |-> url_git, path_data |-> default_path_data]

\* the folder main() tests for, removes and rebinds path_data to
fetched_folder == <<"sct_testing_data_propseg">>

\* the folder "git clone <url>" creates when no target is given: the last
\* component of the url without ".git"
CloneTarget(url) ==
    LET u == IF EndsWith(url, <<".git">>) THEN SubSeq(url, 1, Len(url) - 1) ELSE url
    IN  <<u[Len(u)]>>

\* folders of the working directory whose existence the model tracks
TrackedDirs == {fetched_folder, CloneTarget(url_git)}

(***************************************************************************)
(* Inputs: command lines and corpus contents.                              *)
(***************************************************************************)
\* values of -p
PathArgs == {<<"corpus">>}

\* parsed command lines: a getopt error, -h, or a combination of -d, -r, -p
\* (p = << >> when -p is not given)
Argvs ==
    {[kind |-> k, d |-> 0, r |-> 0, p |-> << >>] : k \in {"bad", "help"}}
    \cup {[kind |-> "ok", d |-> d, r |-> r, p |-> << >>] : d \in {0, 1}, r \in {0, 1}}
    \cup {[kind |-> "ok", d |-> 1, r |-> 0, p |-> p] : p \in PathArgs}

Sentinels == {"._.DS_Store", ".DS_Store"}

\* entries the t2/ folder may hold
DirNames == {"subj01", "subj02"} \cup Sentinels

\* entries a subject folder may hold
FileNames(d) ==
    {<<"t2_", d, ".nii.gz">>,
     <<"manual_", "t2_", d, ".nii.gz">>,
     <<"t2_", d, "_seg", ".nii.gz">>,
     <<"t2_", d, "_detection", ".nii.gz">>,
     <<"old">>}

Variants == {"old", "new"}

\* every result stored at the first position
IndexFirst(v) == 1

\* position of a variant in results_detection and results_segmentation
Index(v) == IF v = "old" THEN 1 ELSE 2

\* wait statuses returned by commands.getstatusoutput
Statuses == {0, 256}
NoStatus == -1

(***************************************************************************)
(* Floats.                                                                 *)
(***************************************************************************)
F(x) == [nan |-> FALSE, val |-> x]
NaN == [nan |-> TRUE, val |-> 0]
isnan(x) == x.nan

\* round(r, 2), on thousandths
round2(x) == IF x.nan THEN x ELSE F(((x.val + 5) \div 10) * 10)

\* float(token) with every word that is no number read as 0.0
floatZeroOnError(tok) ==
    CASE tok = "1.0"   -> [ok |-> TRUE, x |-> F(1000)]
      [] tok = "0.456" -> [ok |-> TRUE, x |-> F(456)]
      [] tok = "0.0"   -> [ok |-> TRUE, x |-> F(0)]
      [] tok = "nan"   -> [ok |-> TRUE, x |-> NaN]
      [] OTHER         -> [ok |-> TRUE, x |-> F(0)]

\* float(token): the tokens Python parses, ok = FALSE for a ValueError
float(tok) ==
    CASE tok = "1.0"   -> [ok |-> TRUE, x |-> F(1000)]
      [] tok = "0.0"   -> [ok |-> TRUE, x |-> F(0)]
      [] tok = "0.456" -> [ok |-> TRUE, x |-> F(456)]
      [] tok = "nan"   -> [ok |-> TRUE, x |-> NaN]
      [] OTHER         -> [ok |-> FALSE, x |-> F(0)]

\* what sct_dice_coefficient prints, split into words
ScoreOutputs == {<<"3D", "Dice", "coefficient", "=", t>> : t \in {"1.0", "0.0", "nan"}}
ErrorOutputs == {<< >>, <<"ERROR:", "cannot", "read", "file">>}

(***************************************************************************)
(* State.                                                                  *)
(***************************************************************************)
VARIABLES
    pc,                    \* <<function, statement>> the program is at
    param,                 \* the param instance
    dirs,                  \* tracked folders: "unknown" (not looked at yet),
                           \* "absent", "removed", "prior" (of an earlier run)
                           \* or "fresh" (written by this run)
    dirnames,              \* entries of t2/ the outer loop still has to visit
    dirname,               \* loop variable of the outer loop
    dirlist,               \* names the current subject folder holds
    filenames,             \* entries the inner loop still has to visit
    results_t2,            \* rows of the report
    fname_input,           \* argument of segmentation()
    output_dir,            \* argument of segmentation()
    results_detection,     \* local of segmentation()
    results_segmentation,  \* local of segmentation()
    status_propseg,        \* locals status_propseg_old / _new
    status_detection,      \* locals status_detection_old / _new
    output_validation,     \* locals output_validation_old / _new
    outfs,                 \* paths of the output files that exist
    written,               \* those of them an executable of this run wrote
    cmds,                  \* commands issued by the current segmentation()
    calls,                 \* the fname_input of every segmentation() so far
    stdout,                \* the table printed, << >> before
    exc,                   \* the exception that left main(), if any
    exitcode,              \* exit code of the process, NoStatus while running
    \* sct_fmri_compute_tsnr.py
    tsnr_pc,               \* statement the script is at, "idle" when not run
    tsnr_param,            \* the Param instance
    fmri,                  \* self.fmri
    disk,                  \* the image files: file name |-> data
    maths,                 \* the sct_maths commands issued
    nii_mean,              \* the Image object nii_mean (nii_tsnr is the same object)
    data_std,              \* the array data_std
    tsnr_exit              \* exit code of the script, NoStatus while running

harness_vars == <<pc, param, dirs, dirnames, dirname, dirlist, filenames, results_t2,
          fname_input, output_dir, results_detection, results_segmentation,
          status_propseg, status_detection, output_validation, outfs, written,
          cmds, calls, stdout, exc, exitcode>>

tsnr_vars == <<tsnr_pc, tsnr_param, fmri, disk, maths, nii_mean, data_std, tsnr_exit>>

vars == <<harness_vars, tsnr_vars>>

walk_vars == <<dirnames, dirname, dirlist, filenames>>
call_vars == <<fname_input, output_dir, results_detection, results_segmentation,
               status_propseg, status_detection, output_validation, outfs, written,
               cmds, calls>>
end_vars  == <<stdout, exc, exitcode>>

NoExc == [kind |-> "none", at |-> <<"main", "init">>]

NoImage == [fname |-> << >>, data |-> << >>]

\* class Param of sct_fmri_compute_tsnr.py, lines 22-25
Param == [debug |-> 0, verbose |-> 1]

\* the script is not run
TsnrIdle ==
    /\ tsnr_pc = "idle"
    /\ tsnr_param = Param
    /\ fmri = << >>
    /\ disk = << >>
    /\ maths = << >>
    /\ nii_mean = NoImage
    /\ data_std = << >>
    /\ tsnr_exit = NoStatus

HarnessInit ==
    /\ pc = <<"main", "init">>
    /\ param = param_init
    /\ dirs = [t \in TrackedDirs |-> "unknown"]
    /\ dirnames = << >>
    /\ dirname = ""
    /\ dirlist = {}
    /\ filenames = << >>
    /\ results_t2 = << >>
    /\ fname_input = << >>
    /\ output_dir = << >>
    /\ results_detection = <<0, 0>>
    /\ results_segmentation = <<F(0), F(0)>>
    /\ status_propseg = [v \in Variants |-> NoStatus]
    /\ status_detection = [v \in Variants |-> NoStatus]
    /\ output_validation = [v \in Variants |-> << >>]
    /\ outfs = {}
    /\ written = {}
    /\ cmds = << >>
    /\ calls = << >>
    /\ stdout = [printed |-> FALSE, rows |-> << >>]
    /\ exc = NoExc
    /\ exitcode = NoStatus

Init == HarnessInit /\ TsnrIdle

\* an exception nothing catches: traceback, exit code 1
Raise(kind) ==
    /\ exc' = [kind |-> kind, at |-> pc]
    /\ exitcode' = 1
    /\ pc' = <<"main", "crashed">>

(***************************************************************************)
(* main(), lines 36-67: options and download.                              *)
(***************************************************************************)
\* line 55 with the test left out
AfterOptionsFetching(download) == <<"main", "fetch_remove">>

\* line 55: the download block is entered when param.download is set
AfterOptions(download) ==
    IF download # 0 THEN <<"main", "fetch_remove">> ELSE <<"main", "listdir">>

\* lines 37-52.  usage() is not defined in the file: a getopt error and -h
\* both end in a NameError.
ParseArgs ==
    /\ pc = <<"main", "init">>
    /\ \E argv \in Argvs :
        IF argv.kind # "ok"
        THEN /\ Raise("NameError")
             /\ UNCHANGED param
        ELSE /\ param' = [param EXCEPT !.download = argv.d,
                                       !.remove_tmp_file = argv.r,
                                       !.path_data = IF argv.p = << >> THEN @ ELSE argv.p]
             /\ pc' = AfterOptions(argv.d)
             /\ UNCHANGED <<exc, exitcode>>
    /\ UNCHANGED <<dirs, walk_vars, results_t2, call_vars, stdout>>
    /\ UNCHANGED tsnr_vars

\* lines 57-60: remove data folder if exist; either way it is not there after
FetchRemove ==
    /\ pc = <<"main", "fetch_remove">>
    /\ \E exists \in BOOLEAN :
          dirs' = IF exists
                  THEN [dirs EXCEPT ![fetched_folder] = "removed"]
                  ELSE [dirs EXCEPT ![fetched_folder] = "absent"]
    /\ pc' = <<"main", "fetch_clone">>
    /\ UNCHANGED <<param, walk_vars, results_t2, call_vars, end_vars>>
    /\ UNCHANGED tsnr_vars

\* lines 61-62: git clone writes the folder named after the url, and refuses
\* to write into a folder that is already there
FetchClone ==
    /\ pc = <<"main", "fetch_clone">>
    /\ LET target == CloneTarget(param.url_git)
       IN  \E exists \in (IF dirs[target] = "unknown" THEN BOOLEAN ELSE {FALSE}) :
             dirs' = IF exists
                     THEN [dirs EXCEPT ![target] = "prior"]
                     ELSE [dirs EXCEPT ![target] = "fresh"]
    /\ pc' = <<"main", "fetch_rebind">>
    /\ UNCHANGED <<param, walk_vars, results_t2, call_vars, end_vars>>
    /\ UNCHANGED tsnr_vars

\* lines 63-64: update path_data field
FetchRebind ==
    /\ pc = <<"main", "fetch_rebind">>
    /\ param' = [param EXCEPT !.path_data = fetched_folder]
    /\ pc' = <<"main", "listdir">>
    /\ UNCHANGED <<dirs, walk_vars, results_t2, call_vars, end_vars>>
    /\ UNCHANGED tsnr_vars

(***************************************************************************)
(* main(), lines 66-80: the walk over t2/.                                 *)
(***************************************************************************)
\* line 72
IsSentinel(d) == d \in {"._.DS_Store", ".DS_Store"}

\* line 74 without its second condition
SelectedKeepingSeg(filename) ==
    /\ StartsWith(filename, <<"t2_">>)
    /\ ~ EndsWith(filename, <<"_detection", ".nii.gz">>)

\* line 74 without its first condition
SelectedAnyPrefix(filename) ==
    /\ ~ EndsWith(filename, <<"_seg", ".nii.gz">>)
    /\ ~ EndsWith(filename, <<"_detection", ".nii.gz">>)

\* line 74
Selected(filename) ==
    /\ StartsWith(filename, <<"t2_">>)
    /\ ~ EndsWith(filename, <<"_seg", ".nii.gz">>)
    /\ ~ EndsWith(filename, <<"_detection", ".nii.gz">>)

\* lines 76-79 with the two branches exchanged
VerdictInverted(d) == IF d = 0 THEN "Not In" ELSE "OK"

\* lines 76-79
Verdict(d) == IF d = 0 THEN "OK" ELSE "Not In"

\* the tracked folder a data path names, << >> for any other path
TrackedOf(path_data) ==
    IF \E d \in TrackedDirs : path_data = Cwd \o <<"/">> \o d \o <<"/">>
    THEN CHOOSE d \in TrackedDirs : path_data = Cwd \o <<"/">> \o d \o <<"/">>
    ELSE << >>

\* lines 67-71: absolute path with a slash, then os.listdir(path_data+"t2/"),
\* an OSError when the folder is not there.  A folder the run has not
\* looked at yet may or may not be there.
ListData ==
    /\ pc = <<"main", "listdir">>
    /\ LET path_data == slash_at_the_end(abspath(param.path_data))
           tracked   == TrackedOf(path_data)
       IN  /\ param' = [param EXCEPT !.path_data = path_data]
           /\ \E there \in (IF tracked = << >> \/ dirs[tracked] = "unknown"
                            THEN BOOLEAN ELSE {dirs[tracked] \in {"prior", "fresh"}}) :
                IF there
                THEN /\ \E l \in Listings(DirNames, MaxDirs) : dirnames' = l
                     /\ pc' = <<"main", "for_dirname">>
                     /\ UNCHANGED <<exc, exitcode>>
                ELSE /\ Raise("OSError")
                     /\ UNCHANGED dirnames
    /\ UNCHANGED <<dirs, dirname, dirlist, filenames, results_t2, call_vars, stdout>>
    /\ UNCHANGED tsnr_vars

\* the entries of a listing the loop body of line 73 is run for
Subjects(l) == SelectSeq(l, LAMBDA d : ~ IsSentinel(d))

\* the entries of a listing the loop body of line 75 is run for
Inputs(l) == SelectSeq(l, Selected)

\* lines 71-74: next entry of t2/ that is no sentinel; it is listed (an OSError
\* when it is not a folder) and the listing filtered
ForDirname ==
    /\ pc = <<"main", "for_dirname">>
    /\ IF Subjects(dirnames) = << >>
       THEN /\ dirnames' = << >>
            /\ pc' = <<"main", "print">>
            /\ UNCHANGED <<dirname, dirlist, filenames, outfs, written, exc, exitcode>>
       ELSE /\ dirname' = Head(Subjects(dirnames))
            /\ dirnames' = Tail(Subjects(dirnames))
            /\ \E isdir \in BOOLEAN :
                 IF isdir
                 THEN /\ \E l \in Listings(FileNames(dirname'), MaxFiles) :
                           /\ filenames' = Inputs(l)
                           /\ dirlist' = {l[i] : i \in 1..Len(l)}
                      /\ outfs' = {}
                      /\ written' = {}
                      /\ pc' = <<"main", "for_filename">>
                      /\ UNCHANGED <<exc, exitcode>>
                 ELSE /\ Raise("OSError")
                      /\ UNCHANGED <<dirlist, filenames, outfs, written>>
    /\ UNCHANGED <<param, dirs, results_t2, fname_input, output_dir,
                   results_detection, results_segmentation, status_propseg,
                   status_detection, output_validation, cmds, calls, stdout>>
    /\ UNCHANGED tsnr_vars

\* lines 73-75 and 99-109: next selected entry of the subject folder; it is
\* handed to segmentation(), which starts with its results initialised
ForFilename ==
    /\ pc = <<"main", "for_filename">>
    /\ IF filenames = << >>
       THEN /\ pc' = <<"main", "for_dirname">>
            /\ UNCHANGED <<filenames, call_vars>>
       ELSE /\ filenames' = Tail(filenames)
            /\ fname_input' = param.path_data \o <<"t2", "/">> \o <<dirname>>
                                \o <<"/">> \o Head(filenames)
            /\ output_dir' = param.path_data \o <<"t2", "/">> \o <<dirname>> \o <<"/">>
            /\ results_detection' = <<0, 0>>
            /\ results_segmentation' = <<F(0), F(0)>>
            /\ status_propseg' = [v \in Variants |-> NoStatus]
            /\ status_detection' = [v \in Variants |-> NoStatus]
            /\ output_validation' = [v \in Variants |-> << >>]
            /\ cmds' = << >>
            /\ calls' = Append(calls, fname_input')
            /\ pc' = <<"old", "create_folder">>
            /\ UNCHANGED <<outfs, written>>
    /\ UNCHANGED <<param, dirs, dirnames, dirname, dirlist, results_t2, end_vars>>
    /\ UNCHANGED tsnr_vars

(***************************************************************************)
(* segmentation(), lines 97-153.                                           *)
(***************************************************************************)
image_type == "t2"

\* sct.run(cmd): the status and the output of the command are handed back to
\* the caller, whatever the status
sct_run(statuses, outputs) == statuses \X outputs

\* sct.create_folder(folder): TRUE when the folder is there afterwards, FALSE
\* for the fatal error of a folder that cannot be created
sct_create_folder == BOOLEAN

\* lines 100 and 103 with the folder of "old" for both variants
segmentation_filename_shared(f, v) ==
    LET x == extract_fname(f)
    IN  x.path \o <<"old", "/">> \o x.file \o <<"_seg">> \o x.ext

\* lines 100 and 103
segmentation_filename(f, v) ==
    LET x == extract_fname(f)
    IN  x.path \o <<v, "/">> \o x.file \o <<"_seg">> \o x.ext

\* lines 101 and 104 with the ground truth looked for in the folder of the
\* variant
manual_segmentation_filename_in_variant(f, v) ==
    LET x == extract_fname(f)
    IN  x.path \o <<v, "/">> \o <<"manual_">> \o x.file \o x.ext

\* lines 101 and 104
manual_segmentation_filename(f, v) ==
    LET x == extract_fname(f)
    IN  x.path \o <<"manual_">> \o x.file \o x.ext

\* lines 102 and 105
detection_filename(f, v) ==
    LET x == extract_fname(f)
    IN  x.path \o <<v, "/">> \o x.file \o <<"_detection">> \o x.ext

\* the executable of a variant, lines 113 and 134
Executable(v) == IF v = "old" THEN "sct_propseg_old" ELSE "sct_propseg"

\* the files the executable writes for input i into folder o (-detect-nii)
Written(i, o) ==
    LET x == extract_fname(i)
    IN  [seg |-> o \o <<"/">> \o x.file \o <<"_seg">> \o x.ext,
         det |-> o \o <<"/">> \o x.file \o <<"_detection">> \o x.ext]

\* the folder os.listdir listed last
ListedFolder == param.path_data \o <<"t2", "/">> \o <<dirname>> \o <<"/">>

\* a file is there when the listing showed it or a run has written it
FileExists(path) ==
    \/ path \in outfs
    \/ \E n \in dirlist : path = ListedFolder \o n

\* the statement after the last one of a variant
AfterVariant(v) == IF v = "old" THEN <<"new", "create_folder">> ELSE <<"main", "return">>

\* lines 112 and 133: sct.create_folder; a folder the listing showed may hold
\* the two files of an earlier run, and a folder cannot always be created
CreateFolder(v) ==
    /\ pc = <<v, "create_folder">>
    /\ LET folder == output_dir \o <<v>>
           w      == Written(fname_input, folder)
       IN  \E ok \in sct_create_folder :
             IF ok
             THEN /\ \E old_files \in (IF FileExists(folder)
                                       THEN {{}, {w.seg, w.det}} ELSE {{}}) :
                        outfs' = outfs \cup old_files
                  /\ cmds' = Append(cmds, [tool |-> "create_folder", a |-> folder, b |-> << >>, t |-> ""])
                  /\ pc' = <<v, "propseg">>
                  /\ UNCHANGED <<exc, exitcode>>
             ELSE /\ Raise("FatalSetupError")
                  /\ UNCHANGED <<outfs, cmds>>
    /\ UNCHANGED <<param, dirs, walk_vars, results_t2, fname_input, output_dir,
                   results_detection, results_segmentation, status_propseg,
                   status_detection, output_validation, written, calls, stdout>>
    /\ UNCHANGED tsnr_vars

\* lines 113-117 and 134-138: the executable ends with any status, having
\* written its two files or none
RunPropseg(v) ==
    /\ pc = <<v, "propseg">>
    /\ LET folder == output_dir \o <<v>>
           w      == Written(fname_input, folder)
       IN  /\ \E r \in sct_run(Statuses, {<< >>}), files \in {{}, {w.seg, w.det}} :
                /\ status_propseg' = [status_propseg EXCEPT ![v] = r[1]]
                /\ outfs' = outfs \cup files
                /\ written' = written \cup files
           /\ cmds' = Append(cmds, [tool |-> Executable(v), a |-> fname_input,
                                    b |-> folder, t |-> image_type])
    /\ pc' = <<v, "detection">>
    /\ UNCHANGED <<param, dirs, walk_vars, results_t2, fname_input, output_dir,
                   results_detection, results_segmentation, status_detection,
                   output_validation, calls, end_vars>>
    /\ UNCHANGED tsnr_vars

\* lines 119-121 and 140-142: isct_check_detection.py cannot succeed on a file
\* that is not there
CheckDetection(v) ==
    /\ pc = <<v, "detection">>
    /\ LET i == detection_filename(fname_input, v)
           t == manual_segmentation_filename(fname_input, v)
       IN  /\ \E r \in sct_run(IF FileExists(i) /\ FileExists(t)
                                 THEN Statuses ELSE Statuses \ {0}, {<< >>}) :
                /\ status_detection' = [status_detection EXCEPT ![v] = r[1]]
                /\ results_detection' = [results_detection EXCEPT ![Index(v)] = r[1]]
           /\ cmds' = Append(cmds, [tool |-> "isct_check_detection.py", a |-> i,
                                    b |-> t, t |-> ""])
    /\ pc' = <<v, "dice">>
    /\ UNCHANGED <<param, dirs, walk_vars, results_t2, fname_input, output_dir,
                   results_segmentation, status_propseg, output_validation,
                   outfs, written, calls, end_vars>>
    /\ UNCHANGED tsnr_vars

\* lines 129-130 and 150-151 left out
CoerceNothing(x) == x

\* lines 129-130 and 150-151
Coerce(x) == IF isnan(x) THEN F(0) ELSE x

\* lines 123-130 and 144-151: sct_dice_coefficient prints a score only for
\* files that are there; the last word of its output is parsed (IndexError
\* without a word, ValueError for a word that is no number)
DiceCoefficient(v) ==
    /\ pc = <<v, "dice">>
    /\ LET a == segmentation_filename(fname_input, v)
           b == manual_segmentation_filename(fname_input, v)
       IN  /\ cmds' = Append(cmds, [tool |-> "sct_dice_coefficient", a |-> a,
                                    b |-> b, t |-> ""])
           /\ \E r \in sct_run({0}, IF FileExists(a) /\ FileExists(b)
                                      THEN ScoreOutputs \cup ErrorOutputs
                                      ELSE ErrorOutputs) :
              LET output == r[2]
              IN
                /\ output_validation' = [output_validation EXCEPT ![v] = output]
                /\ IF output = << >>
                   THEN /\ Raise("IndexError")
                        /\ UNCHANGED results_segmentation
                   ELSE IF ~ float(output[Len(output)]).ok
                   THEN /\ Raise("ValueError")
                        /\ UNCHANGED results_segmentation
                   ELSE /\ results_segmentation' =
                              [results_segmentation EXCEPT
                                 ![Index(v)] = Coerce(float(output[Len(output)]).x)]
                        /\ pc' = AfterVariant(v)
                        /\ UNCHANGED <<exc, exitcode>>
    /\ UNCHANGED <<param, dirs, walk_vars, results_t2, fname_input, output_dir,
                   results_detection, status_propseg, status_detection, outfs,
                   written, calls, stdout>>
    /\ UNCHANGED tsnr_vars

(***************************************************************************)
(* main(), lines 75-95: the row, the report and the exit.                  *)
(***************************************************************************)
\* lines 153 and 75-80 with the row kept only when both detections succeeded
ReturnDroppingFailures ==
    /\ pc = <<"main", "return">>
    /\ results_t2' =
          IF results_detection = <<0, 0>>
          THEN Append(results_t2,
                 <<dirname, Verdict(results_detection[1]), Verdict(results_detection[2]),
                   round2(results_segmentation[1]), round2(results_segmentation[2])>>)
          ELSE results_t2
    /\ pc' = <<"main", "for_filename">>
    /\ UNCHANGED <<param, dirs, walk_vars, call_vars, end_vars>>
    /\ UNCHANGED tsnr_vars

\* lines 153 and 75-80 with a failed executable recorded as a failed detection
ReturnConsultingStatus ==
    /\ pc = <<"main", "return">>
    /\ results_t2' = Append(results_t2,
            <<dirname,
              IF status_propseg["old"] # 0 THEN "Not In" ELSE Verdict(results_detection[1]),
              IF status_propseg["new"] # 0 THEN "Not In" ELSE Verdict(results_detection[2]),
              round2(results_segmentation[1]), round2(results_segmentation[2])>>)
    /\ pc' = <<"main", "for_filename">>
    /\ UNCHANGED <<param, dirs, walk_vars, call_vars, end_vars>>
    /\ UNCHANGED tsnr_vars

\* lines 153 and 75-80: segmentation() returns, main() appends the row
Return ==
    /\ pc = <<"main", "return">>
    /\ results_t2' = Append(results_t2,
            <<dirname, Verdict(results_detection[1]), Verdict(results_detection[2]),
              round2(results_segmentation[1]), round2(results_segmentation[2])>>)
    /\ pc' = <<"main", "for_filename">>
    /\ UNCHANGED <<param, dirs, walk_vars, call_vars, end_vars>>
    /\ UNCHANGED tsnr_vars

\* lines 82-88
PrintResults ==
    /\ pc = <<"main", "print">>
    /\ stdout' = [printed |-> TRUE, rows |-> results_t2]
    /\ pc' = <<"main", "remove_tmp">>
    /\ UNCHANGED <<param, dirs, walk_vars, results_t2, call_vars, exc, exitcode>>
    /\ UNCHANGED tsnr_vars

\* lines 90-93: param has no attribute path_tmp
RemoveTmp ==
    /\ pc = <<"main", "remove_tmp">>
    /\ IF param.remove_tmp_file # 0
       THEN Raise("AttributeError")
       ELSE /\ pc' = <<"main", "exit">>
            /\ UNCHANGED <<exc, exitcode>>
    /\ UNCHANGED <<param, dirs, walk_vars, results_t2, call_vars, stdout>>
    /\ UNCHANGED tsnr_vars

\* line 95
Exit ==
    /\ pc = <<"main", "exit">>
    /\ exitcode' = 0
    /\ pc' = <<"main", "done">>
    /\ UNCHANGED <<param, dirs, walk_vars, results_t2, call_vars, stdout, exc>>
    /\ UNCHANGED tsnr_vars

Next ==
    \/ ParseArgs
    \/ FetchRemove
    \/ FetchClone
    \/ FetchRebind
    \/ ListData
    \/ ForDirname
    \/ ForFilename
    \/ \E v \in Variants : CreateFolder(v)
    \/ \E v \in Variants : RunPropseg(v)
    \/ \E v \in Variants : CheckDetection(v)
    \/ \E v \in Variants : DiceCoefficient(v)
    \/ Return
    \/ PrintResults
    \/ RemoveTmp
    \/ Exit

Spec == Init /\ [][Next]_vars

TypeOK ==
    /\ pc \in ({"main"} \X {"init", "fetch_remove", "fetch_clone", "fetch_rebind",
                            "listdir", "for_dirname", "for_filename", "return",
                            "print", "remove_tmp", "exit", "done", "crashed"})
              \cup (Variants \X {"create_folder", "propseg", "detection", "dice"})
    /\ exitcode \in {NoStatus, 0, 1}
    /\ Len(dirnames) <= MaxDirs
    /\ Len(filenames) <= MaxFiles

(***************************************************************************)
(* scripts/sct_fmri_compute_tsnr.py.  A 4D volume is a function from the   *)
(* voxels to their time series; a number of a 3D volume is a record        *)
(* [kind, val] with val in thousandths.                                    *)
(***************************************************************************)
Voxels == {1, 2}

Finite(x) == [kind |-> "finite", val |-> x]
NotANumber == [kind |-> "nan", val |-> 0]
Infinity == [kind |-> "inf", val |-> 0]

\* the fMRI series the input file may hold
Volumes4D == UNION {[Voxels -> [1..t -> 0..MaxVal]] : t \in 1..MaxT}

RECURSIVE SumSeq(_)
SumSeq(q) == IF q = << >> THEN 0 ELSE Head(q) + SumSeq(Tail(q))

\* largest r of lo..hi with r*r <= n
RECURSIVE ISqrt(_, _, _)
ISqrt(n, lo, hi) ==
    IF lo >= hi THEN lo
    ELSE LET mid == (lo + hi + 1) \div 2
         IN  IF mid * mid <= n THEN ISqrt(n, mid, hi) ELSE ISqrt(n, lo, mid - 1)

\* average over time of one series
Mean(q) == Finite((SumSeq(q) * 1000) \div Len(q))

\* standard deviation over time of one series
Std(q) ==
    LET m == (SumSeq(q) * 1000) \div Len(q)
        d == [i \in 1..Len(q) |-> (q[i] * 1000 - m) * (q[i] * 1000 - m)]
    IN  Finite(ISqrt(SumSeq(d) \div Len(q), 0, MaxVal * 1000))

\* sct_maths -i <4D> -o <3D> -mean t / -std t
sct_maths(vol, op) ==
    [x \in Voxels |-> IF op = "mean" THEN Mean(vol[x]) ELSE Std(vol[x])]

\* numpy division of two floats: 0/0 is nan, x/0 is inf
Divide(a, b) ==
    IF a.kind # "finite" \/ b.kind # "finite" THEN NotANumber
    ELSE IF b.val = 0 THEN (IF a.val = 0 THEN NotANumber ELSE Infinity)
    ELSE Finite((a.val * 1000) \div b.val)

\* sct.add_suffix: the suffix goes before the extension
add_suffix(fname, suffix) ==
    LET x == extract_fname(fname)
    IN  x.path \o x.file \o <<suffix>> \o x.ext

\* the file -i names
InputFmri == <<"fmri", ".nii.gz">>

\* command lines: -i given or not, -v given or not
TsnrArgvs == {[i |-> f, v |-> w] : f \in {InputFmri, << >>}, w \in {-1, 0, 1}}

\* line 59
cmd_mean(fname_data) ==
    [tool |-> "sct_maths", i |-> fname_data, o |-> add_suffix(fname_data, "_mean"),
     op |-> "mean", dim |-> "t"]

\* line 64 with the reduction its output name announces
cmd_std_Tstd(fname_data) ==
    [tool |-> "sct_maths", i |-> fname_data, o |-> add_suffix(fname_data, "_std"),
     op |-> "std", dim |-> "t"]

\* line 64
cmd_std(fname_data) ==
    [tool |-> "sct_maths", i |-> fname_data, o |-> add_suffix(fname_data, "_std"),
     op |-> "mean", dim |-> "t"]

\* the disk after a command has run
RunMaths(cmd) == (cmd.o :> sct_maths(disk[cmd.i], cmd.op)) @@ disk

\* the script is started on a disk that holds the input file
TsnrInit ==
    /\ HarnessInit
    /\ tsnr_pc = "main"
    /\ tsnr_param = Param
    /\ fmri = << >>
    /\ \E vol \in Volumes4D : disk = (InputFmri :> vol)
    /\ maths = << >>
    /\ nii_mean = NoImage
    /\ data_std = << >>
    /\ tsnr_exit = NoStatus

\* lines 106-123: -i is mandatory, the parser ends the script without it
TsnrMain ==
    /\ tsnr_pc = "main"
    /\ \E argv \in TsnrArgvs :
         IF argv.i = << >>
         THEN /\ tsnr_pc' = "usage"
              /\ tsnr_exit' = 2
              /\ UNCHANGED <<tsnr_param, fmri>>
         ELSE /\ tsnr_param' = IF argv.v = -1 THEN tsnr_param
                               ELSE [tsnr_param EXCEPT !.verbose = argv.v]
              /\ fmri' = argv.i
              /\ tsnr_pc' = "mean"
              /\ UNCHANGED tsnr_exit
    /\ UNCHANGED <<disk, maths, nii_mean, data_std, harness_vars>>

\* lines 58-59
ComputeMean ==
    /\ tsnr_pc = "mean"
    /\ maths' = Append(maths, cmd_mean(fmri))
    /\ disk' = RunMaths(cmd_mean(fmri))
    /\ tsnr_pc' = "std"
    /\ UNCHANGED <<tsnr_param, fmri, nii_mean, data_std, tsnr_exit, harness_vars>>

\* lines 63-64
ComputeStd ==
    /\ tsnr_pc = "std"
    /\ maths' = Append(maths, cmd_std(fmri))
    /\ disk' = RunMaths(cmd_std(fmri))
    /\ tsnr_pc' = "load"
    /\ UNCHANGED <<tsnr_param, fmri, nii_mean, data_std, tsnr_exit, harness_vars>>

\* lines 70-72: the two intermediates are read back
LoadImages ==
    /\ tsnr_pc = "load"
    /\ nii_mean' = [fname |-> add_suffix(fmri, "_mean"),
                    data |-> disk[add_suffix(fmri, "_mean")]]
    /\ data_std' = disk[add_suffix(fmri, "_std")]
    /\ tsnr_pc' = "divide"
    /\ UNCHANGED <<tsnr_param, fmri, disk, maths, tsnr_exit, harness_vars>>

\* lines 68 and 73-76: nii_tsnr is nii_mean itself, with the data and the
\* file name replaced
DivideImages ==
    /\ tsnr_pc = "divide"
    /\ nii_mean' = [fname |-> add_suffix(fmri, "_tsnr"),
                    data |-> [x \in Voxels |-> Divide(nii_mean.data[x], data_std[x])]]
    /\ tsnr_pc' = "save"
    /\ UNCHANGED <<tsnr_param, fmri, disk, maths, data_std, tsnr_exit, harness_vars>>

\* line 77
SaveTsnr ==
    /\ tsnr_pc = "save"
    /\ disk' = (nii_mean.fname :> nii_mean.data) @@ disk
    /\ tsnr_pc' = "remove"
    /\ UNCHANGED <<tsnr_param, fmri, maths, nii_mean, data_std, tsnr_exit, harness_vars>>

\* lines 83-84 and the end of main()
RemoveIntermediates ==
    /\ tsnr_pc = "remove"
    /\ disk' = [f \in DOMAIN disk \ {add_suffix(fmri, "_mean"), add_suffix(fmri, "_std")}
                  |-> disk[f]]
    /\ tsnr_pc' = "done"
    /\ tsnr_exit' = 0
    /\ UNCHANGED <<tsnr_param, fmri, maths, nii_mean, data_std, harness_vars>>

TsnrNext ==
    \/ TsnrMain
    \/ ComputeMean
    \/ ComputeStd
    \/ LoadImages
    \/ DivideImages
    \/ SaveTsnr
    \/ RemoveIntermediates

TsnrSpec == TsnrInit /\ [][TsnrNext]_vars

(***************************************************************************)
(* Properties.                                                             *)
(***************************************************************************)
\* the commands of the current segmentation() issued for a variant
Invoked(v, tool) ==
    \E i \in DOMAIN cmds :
        /\ cmds[i].tool = tool
        /\ i > (IF v = "old" THEN 0 ELSE 4)
        /\ i <= (IF v = "old" THEN 4 ELSE 8)

\* the run was ended by an exception raised in the statements of a variant
AbortedIn(v) == pc = <<"main", "crashed">> /\ exc.at[1] = v

\* the executable of a variant failed entirely: non-zero status, and neither
\* of its two files is there
FailedEntirely(v) ==
    LET w == Written(fname_input, output_dir \o <<v>>)
    IN  /\ status_propseg[v] \notin {0, NoStatus}
        /\ w.seg \notin outfs
        /\ w.det \notin outfs

\* C1: whatever the invocations of "old" did (any status, any output, files
\* missing), the three invocations of "new" follow those of "old" unless the
\* folder of "new" cannot be created, and what segmentation() returns for
\* "new" is what the invocations of "new" produced.
C1_NewIndependentOfOld ==
    /\ (Invoked("old", "sct_dice_coefficient") /\ pc[1] = "main"
            /\ exc.kind # "FatalSetupError")
         => /\ Invoked("new", Executable("new"))
            /\ Invoked("new", "isct_check_detection.py")
            /\ Invoked("new", "sct_dice_coefficient")
    /\ pc = <<"main", "return">>
         => /\ results_detection[2] = status_detection["new"]
            /\ LET o == output_validation["new"]
               IN  results_segmentation[2] =
                      (IF float(o[Len(o)]).x = NaN THEN F(0) ELSE float(o[Len(o)]).x)

\* C2: when the executable of "old" failed entirely, once the Dice command of
\* "old" has been issued segmentation() has not raised, the verdict recorded
\* for "old" is a failure and its score is 0.0; and when "new" then succeeds
\* with a perfect score the row of subj01 is ["subj01", "Not In", "OK", 0.00,
\* 1.00].
C2_FailureRecordedAsData ==
    (FailedEntirely("old") /\ Invoked("old", "sct_dice_coefficient"))
      => /\ ~ AbortedIn("old")
         /\ results_detection[1] # 0
         /\ results_segmentation[1] = F(0)
         /\ (/\ Len(results_t2) = Len(calls)
             /\ dirname = "subj01"
             /\ status_detection["new"] = 0
             /\ output_validation["new"] # << >>
             /\ output_validation["new"][Len(output_validation["new"])] = "1.0")
              => results_t2[Len(results_t2)] =
                    <<"subj01", "Not In", "OK", F(0), F(1000)>>

\* C3: when the options are parsed and every folder of the corpus can be
\* listed, the process ends with the report printed and exit code 0, whatever
\* the flags and the failures of the subjects; any other end is a fatal
\* setup error.
C3_ExitZeroWithReport ==
    (exitcode # NoStatus /\ exc.kind \notin {"NameError", "OSError"})
      => \/ exitcode = 0 /\ stdout.printed
         \/ exc.kind = "FatalSetupError"

\* last component of a path, and the folder it lies in
NameOf(path) == SubSeq(path, LastSlash(path, Len(path)) + 1, Len(path))
SubjectOf(path) == path[LastSlash(path, Len(path)) - 1]

\* C4: the report printed has one row per input handed to segmentation(), in
\* the order of the calls, each row naming the folder of its input, whatever
\* the verdicts.
C4_OneRowPerInput ==
    stdout.printed
      => /\ Len(stdout.rows) = Len(calls)
         /\ \A i \in DOMAIN calls : stdout.rows[i][1] = SubjectOf(calls[i])

\* C4 witness: a report of two rows, one of them with a failed detection
C4_Witness ==
    /\ stdout.printed
    /\ Len(stdout.rows) = 2
    /\ \E i \in 1..2 : stdout.rows[i][2] = "Not In"

\* C5: every file handed to segmentation(), or waiting to be, has a name that
\* begins with t2_ and ends neither in _seg.nii.gz nor in _detection.nii.gz,
\* and the folder listed is never .DS_Store or ._.DS_Store.
C5_OnlyRawInputs ==
    /\ \A n \in {NameOf(calls[i]) : i \in DOMAIN calls}
              \cup {filenames[i] : i \in DOMAIN filenames} :
          /\ StartsWith(n, <<"t2_">>)
          /\ ~ EndsWith(n, <<"_seg", ".nii.gz">>)
          /\ ~ EndsWith(n, <<"_detection", ".nii.gz">>)
    /\ dirname \notin Sentinels

\* C5 witness: segmentation() is called for the raw input of a folder that
\* also holds a derived file of the same prefix
C5_Witness ==
    /\ pc[1] \in Variants
    /\ NameOf(fname_input) = <<"t2_", dirname, ".nii.gz">>
    /\ \E n \in dirlist : EndsWith(n, <<"_seg", ".nii.gz">>) /\ StartsWith(n, <<"t2_", dirname>>)

\* C6: no score held by segmentation(), by a row or by the printed table is
\* not-a-number, and a variant whose scorer printed nan has the score 0.0.
C6_NoNaNStored ==
    /\ \A i \in 1..2 : ~ isnan(results_segmentation[i])
    /\ \A r \in {results_t2[i] : i \in DOMAIN results_t2}
              \cup {stdout.rows[i] : i \in DOMAIN stdout.rows} :
          ~ isnan(r[4]) /\ ~ isnan(r[5])
    /\ (output_validation["old"] # << >>
          /\ output_validation["old"][Len(output_validation["old"])] = "nan")
         => results_segmentation[1] = F(0)
    /\ (output_validation["new"] # << >>
          /\ output_validation["new"][Len(output_validation["new"])] = "nan")
         => results_segmentation[2] = F(0)

\* C6 witness: a printed table whose last row comes from a scorer output nan
C6_Witness ==
    /\ stdout.printed
    /\ stdout.rows # << >>
    /\ \E v \in Variants :
          /\ output_validation[v] # << >>
          /\ output_validation[v][Len(output_validation[v])] = "nan"

\* C7: with the download requested, when the walk starts the folder path_data
\* names is the folder the clone has just written, which is the folder that
\* was tested and removed before.
C7_FetchedFolderIsWalked ==
    (param.download # 0 /\ pc = <<"main", "listdir">>)
      => /\ param.path_data = fetched_folder
         /\ dirs[fetched_folder] = "fresh"
         /\ CloneTarget(param.url_git) = fetched_folder

\* the phase of the harness a statement belongs to
Phase(p) ==
    CASE p = <<"main", "init">> -> "INIT"
      [] p \in {<<"main", "fetch_remove">>, <<"main", "fetch_clone">>,
                <<"main", "fetch_rebind">>} -> "FETCHING"
      [] p \in {<<"main", "listdir">>, <<"main", "for_dirname">>} -> "WALKING"
      [] p[1] \in Variants \/ p \in {<<"main", "for_filename">>, <<"main", "return">>}
            -> "PROCESSING"
      [] p = <<"main", "print">> -> "AGGREGATING"
      [] p \in {<<"main", "remove_tmp">>, <<"main", "exit">>, <<"main", "done">>} -> "DONE"
      [] OTHER -> "ABORTED"

\* order of the phases, walking and processing taken as one loop
Rank(ph) ==
    CASE ph = "INIT" -> 0
      [] ph = "FETCHING" -> 1
      [] ph \in {"WALKING", "PROCESSING"} -> 2
      [] ph = "AGGREGATING" -> 3
      [] ph = "DONE" -> 4
      [] OTHER -> 5

\* a step that lists a subject folder
ListsSubjectFolder == pc = <<"main", "for_dirname">> /\ pc' = <<"main", "for_filename">>

\* a step in the order of the phases: never back to an earlier phase, the
\* download phase entered exactly when the flag is set, the t2/ folder listed
\* before any call of segmentation(), and the table printed only when no
\* entry is left and every call has its row
StepInOrder ==
    /\ Rank(Phase(pc')) >= Rank(Phase(pc))
    /\ (Phase(pc) = "INIT" /\ Phase(pc') # "ABORTED")
         => (Phase(pc') = "FETCHING" <=> param'.download # 0)
    /\ Phase(pc') = "FETCHING" => param'.download # 0
    /\ pc = <<"main", "listdir">> => calls = << >>
    /\ Phase(pc') = "AGGREGATING"
         => /\ Subjects(dirnames') = << >>
            /\ filenames' = << >>
            /\ Len(results_t2') = Len(calls')
    /\ stdout'.printed => Phase(pc') \in {"DONE", "ABORTED"}

C9_VerdictFromOwnStatus ==
    /\ \A i \in DOMAIN results_t2 :
          results_t2[i][2] \in {"OK", "Not In"} /\ results_t2[i][3] \in {"OK", "Not In"}
    /\ (calls # << >> /\ Len(results_t2) = Len(calls))
         => LET row == results_t2[Len(results_t2)]
            IN  /\ row[2] = "OK" <=> status_detection["old"] = 0
                /\ row[3] = "OK" <=> status_detection["new"] = 0

\* C9 witness: a row for verifier statuses that differ between the variants
C9_Witness ==
    /\ calls # << >>
    /\ Len(results_t2) = Len(calls)
    /\ status_detection["old"] = 0
    /\ status_detection["new"] \notin {0, NoStatus}

\* the scenario of C10: the only call is for t2_subj01.nii.gz in subj01, which
\* holds that file and its ground truth, both verifiers ended with status 0
\* and both scorers printed 1.0
PerfectSubj01 ==
    /\ Len(calls) = 1
    /\ dirname = "subj01"
    /\ NameOf(calls[1]) = <<"t2_", "subj01", ".nii.gz">>
    /\ dirlist = {<<"t2_", "subj01", ".nii.gz">>, <<"manual_", "t2_", "subj01", ".nii.gz">>}
    /\ \A v \in Variants :
          /\ status_detection[v] = 0
          /\ output_validation[v] # << >>
          /\ output_validation[v][Len(output_validation[v])] = "1.0"

\* C10: in that scenario the table printed is the one row
\* ["subj01", "OK", "OK", 1.00, 1.00].
C10_PerfectRow ==
    (PerfectSubj01 /\ stdout.printed)
      => stdout.rows = << <<"subj01", "OK", "OK", F(1000), F(1000)>> >>

\* C10 witness: the scenario, with the table printed
C10_Witness == PerfectSubj01 /\ stdout.printed

\* the walk ended without a call of segmentation()
WalkedNothing ==
    /\ calls = << >>
    /\ \/ Phase(pc) \in {"AGGREGATING", "DONE"}
       \/ pc = <<"main", "crashed">> /\ exc.at = <<"main", "remove_tmp">>

\* C11: when the walk finds no input (t2/ empty, only sentinels, or folders
\* without a qualifying file), no command is issued, no exception is raised,
\* the table printed has no row and the process ends with exit code 0.
C11_EmptyWalkExitsZero ==
    WalkedNothing
      => /\ exc = NoExc
         /\ cmds = << >>
         /\ results_t2 = << >>
         /\ stdout.printed => stdout.rows = << >>
         /\ exitcode \in {NoStatus, 0}
         /\ pc = <<"main", "done">> => (exitcode = 0 /\ stdout.printed)

\* the state belongs to the call of segmentation() for fname_input
InCall ==
    \/ pc[1] \in Variants
    \/ pc = <<"main", "return">>
    \/ pc = <<"main", "crashed">> /\ exc.at[1] \in Variants

\* the segmentation of a variant or the ground truth is not there
MissingAtScoring(v) ==
    \/ ~ FileExists(segmentation_filename(fname_input, v))
    \/ ~ FileExists(manual_segmentation_filename(fname_input, v))

ExpectedSteps(v) ==
    <<"create_folder", Executable(v), "isct_check_detection.py", "sct_dice_coefficient">>

ExpectedTools == ExpectedSteps("old") \o ExpectedSteps("new")

\* C13: the commands of a call are issued in the order folder, executable,
\* verifier, scorer for "old" and then for "new", each at most once, and a
\* call that has ended without a fatal folder error has issued all eight,
\* whatever the statuses were.
C13_FourStepsPerVariant ==
    /\ Len(cmds) <= Len(ExpectedTools)
    /\ \A i \in DOMAIN cmds : cmds[i].tool = ExpectedTools[i]
    /\ (calls # << >> /\ pc[1] = "main" /\ exc.kind # "FatalSetupError")
         => Len(cmds) = Len(ExpectedTools)

\* the folder an input lies in, with its slash
InputDir == SubSeq(fname_input, 1, LastSlash(fname_input, Len(fname_input)))

\* position before the first command of a variant
Base(v) == IF v = "old" THEN 0 ELSE 4

\* C14: the folder created for a variant and handed to its executable is
\* <folder of the input>/<variant>; the detection file verified and the
\* segmentation scored for the variant are the two files the executable was
\* told to write there; and no path of "old" is a path of "new".
C14_SeparateOutputs ==
    /\ \A v \in Variants :
          LET k   == Base(v)
              sub == InputDir \o <<v>>
              w   == Written(fname_input, sub)
          IN  /\ Len(cmds) >= k + 1 => cmds[k + 1].a = sub
              /\ Len(cmds) >= k + 2 => (cmds[k + 2].b = sub /\ cmds[k + 2].a = fname_input)
              /\ Len(cmds) >= k + 3
                    => /\ cmds[k + 3].a = w.det
                       /\ StartsWith(cmds[k + 3].a, sub \o <<"/">>)
              /\ Len(cmds) >= k + 4
                    => /\ cmds[k + 4].a = w.seg
                       /\ StartsWith(cmds[k + 4].a, sub \o <<"/">>)
    /\ Len(cmds) = 8
         => {cmds[1].a, cmds[2].b, cmds[3].a, cmds[4].a}
              \cap {cmds[5].a, cmds[6].b, cmds[7].a, cmds[8].a} = {}

\* C14 witness: both variants were run and scored, and the four files the two
\* executables wrote are there
C14_Witness ==
    /\ Len(cmds) = 8
    /\ \A v \in Variants :
          LET w == Written(fname_input, InputDir \o <<v>>)
          IN  w.seg \in outfs /\ w.det \in outfs

\* C15: the ground truth handed to the verifier and to the scorer of either
\* variant is <folder of the input>manual_<name of the input>.
C15_GroundTruthPath ==
    \A i \in DOMAIN cmds :
        cmds[i].tool \in {"isct_check_detection.py", "sct_dice_coefficient"}
          => cmds[i].b = InputDir \o <<"manual_">> \o NameOf(fname_input)

\* C15 witness: both verifiers found the ground truth the folder holds
C15_Witness ==
    /\ Len(cmds) = 8
    /\ <<"manual_">> \o NameOf(fname_input) \in dirlist
    /\ \A v \in Variants : status_detection[v] = 0

\* the series of the input file, and what averaging it over time gives
InputData == disk[InputFmri]
InputMean == [x \in Voxels |-> Mean(InputData[x])]

\* C16: the command that writes the "_std" intermediate is the command that
\* writes the "_mean" intermediate but for the output name, both with the
\* averaging over time; the two intermediates hold the same data, the average
\* of the input; and the tSNR volume saved is that average divided by itself.
C16_StdIsMean ==
    /\ Len(maths) >= 2
         => /\ maths[1].op = "mean"
            /\ maths[1].o # maths[2].o
            /\ [maths[1] EXCEPT !.o = maths[2].o] = maths[2]
    /\ ({add_suffix(fmri, "_mean"), add_suffix(fmri, "_std")} \subseteq DOMAIN disk)
         => /\ disk[add_suffix(fmri, "_mean")] = InputMean
            /\ disk[add_suffix(fmri, "_std")] = disk[add_suffix(fmri, "_mean")]
    /\ tsnr_pc \in {"divide", "save", "remove", "done"} => data_std = InputMean
    /\ (fmri # << >> /\ add_suffix(fmri, "_tsnr") \in DOMAIN disk)
         => disk[add_suffix(fmri, "_tsnr")] =
               [x \in Voxels |-> Divide(InputMean[x], InputMean[x])]

\* C16 witness: the script has ended on an input with a voxel whose standard
\* deviation over time is not its average, and the tSNR saved there is 1
C16_Witness ==
    /\ tsnr_pc = "done"
    /\ add_suffix(fmri, "_tsnr") \in DOMAIN disk
    /\ \E x \in Voxels :
          /\ Mean(InputData[x]).val # 0
          /\ Std(InputData[x]) # Mean(InputData[x])
          /\ disk[add_suffix(fmri, "_tsnr")][x] = Finite(1000)

\* the score a scorer output stands for
Score(o) ==
    LET x == float(o[Len(o)]).x
    IN  IF x.nan THEN F(0) ELSE x

\* the row of the call that returned last is a function of the statuses of
\* the two verifiers and of the outputs of the two scorers
RecordedFromMetrics ==
    (calls # << >> /\ Len(results_t2) = Len(calls))
      => results_t2[Len(results_t2)] =
            <<SubjectOf(fname_input),
              IF status_detection["old"] = 0 THEN "OK" ELSE "Not In",
              IF status_detection["new"] = 0 THEN "OK" ELSE "Not In",
              round2(Score(output_validation["old"])),
              round2(Score(output_validation["new"]))>>

\* no step removes an output file of the subject folder being processed
NotCleared == outfs \subseteq outfs' \/ ListsSubjectFolder

\* C17: what is recorded for a call is determined by the verifier statuses
\* and the scorer outputs alone, whatever the statuses of the executables,
\* and the files found at the output paths are never cleared.
C17_StatusNeverConsulted == [][NotCleared /\ RecordedFromMetrics']_vars

\* C17 witness: the executable of "old" failed and wrote nothing, the two
\* files at its output paths are those of an earlier run, and the row
\* records "OK" and the score 1.0 for "old"
C17_Witness ==
    /\ calls # << >>
    /\ Len(results_t2) = Len(calls)
    /\ status_propseg["old"] \notin {0, NoStatus}
    /\ LET w == Written(fname_input, InputDir \o <<"old">>)
       IN  {w.seg, w.det} \subseteq (outfs \ written)
    /\ results_t2[Len(results_t2)][2] = "OK"
    /\ results_t2[Len(results_t2)][4] = F(1000)

\* the folder a path lies in, with its slash
ParentOf(path) == SubSeq(path, 1, LastSlash(path, Len(path)))

\* the output files that lie directly in the subject folder listed last
LeftInFolder == {g \in outfs : ParentOf(g) = ListedFolder}

\* what os.listdir of the subject folder listed last shows to a later run:
\* what it showed to this run, the folders this run created in it and the
\* files this run left directly in it
Relisted ==
    dirlist
      \cup (IF cmds # << >> /\ InputDir = ListedFolder
            THEN {<<v>> : v \in {u \in Variants : Invoked(u, "create_folder")}}
            ELSE {})
      \cup {NameOf(f) : f \in LeftInFolder}

\* the inner loop over the folder listed last has ended
LoopDone ==
    /\ filenames = << >>
    /\ pc \in {<<"main", "for_dirname">>, <<"main", "print">>, <<"main", "remove_tmp">>,
               <<"main", "exit">>, <<"main", "done">>}

\* C18: the entries a later run selects in a subject folder are the entries
\* this run selected: neither the folders old and new nor a manual_ file is
\* selected, no output file lies in the subject folder itself, and once the
\* folder is processed the inputs handed to segmentation() for it are what a
\* later run selects.
C18_SecondRunSameInputs ==
    LET later == Relisted
        again == {n \in later : Selected(n)}
    IN  /\ again = {n \in dirlist : Selected(n)}
        /\ \A n \in later :
              (n \in {<<"old">>, <<"new">>} \/ StartsWith(n, <<"manual_">>))
                => n \notin again
        /\ LeftInFolder = {}
        /\ LoopDone
             => {NameOf(c) : c \in {calls[i] : i \in {j \in DOMAIN calls :
                                                  ParentOf(calls[j]) = ListedFolder}}}
                  = again

\* C18 witness: a run has ended after processing a folder that holds an
\* input and its ground truth; it created old and new in it and wrote files
\* there, so a later run lists more than this run did
C18_Witness ==
    /\ pc = <<"main", "done">>
    /\ InputDir = ListedFolder
    /\ Len(cmds) = 8
    /\ written # {}
    /\ <<"manual_">> \o NameOf(fname_input) \in dirlist
    /\ <<"new">> \in Relisted \ dirlist

====
